---- MODULE Spec2Model ----
(***************************************************************************)
(* TrackMate: the embedding lifecycle (CLIPService.generate_item_embeddings,*)
(* the batch and cleanup endpoints) and the similarity searches            *)
(* (CLIPService.find_similar_items, search_by_text_embedding,              *)
(* search_by_image_embedding), modelled from app/services/clip_services.py *)
(* and app/api/v1/clip.py.                                                 *)
(*                                                                         *)
(* Floats are fixed-point integers: 1.0 is Scale, a bonus of 1.2 is 12     *)
(* tenths.  Vectors are tuples of fixed-point components.  A stored        *)
(* embedding column is NULL, a JSON string holding a vector, or a string   *)
(* that does not parse.                                                    *)
(***************************************************************************)
EXTENDS Integers, Sequences, FiniteSets, TLC

VARIABLES items, images, now, utc_offset, last, sess, similarity_matches

vars == <<items, images, now, utc_offset, last, sess, similarity_matches>>

-----------------------------------------------------------------------------
(* Bounds of the model *)

MaxImages == 2
MaxBatch == 1

(* Clock units in one day *)
DayLen == 2

(* Fixed-point 1.0, and the weights 0.4 and 0.6 in tenths *)
Scale == 10
TextWeight == 4
ImageWeight == 6

ModelName == "clip-ViT-B-32"
EmbeddingVersion == "1.0"
NoneStr == "None"

-----------------------------------------------------------------------------
(* Vector math: numpy on fixed-point numbers *)

Abs(n) == IF n < 0 THEN -n ELSE n

RECURSIVE IsqrtFrom(_, _)
IsqrtFrom(n, r) == IF (r + 1) * (r + 1) > n THEN r ELSE IsqrtFrom(n, r + 1)

Isqrt(n) == IsqrtFrom(n, 0)

Dot(a, b) == IF Len(a) = 0 THEN 0 ELSE
    LET RECURSIVE S(_)
        S(i) == IF i = 0 THEN 0 ELSE a[i] * b[i] + S(i - 1)
    IN S(Len(a))

Norm(a) == Isqrt(Dot(a, a))

(* np.dot(a, b) / (np.linalg.norm(a) * np.linalg.norm(b)); a shape mismatch *)
(* raises inside np.dot and the except clause returns 0.0; a zero norm      *)
(* divides to nan without raising.                                          *)
NaN == -1000000

HasNaN(a) == \E i \in 1..Len(a) : a[i] = NaN

CosineStrict(a, b) ==
    IF Len(a) # Len(b) THEN 0
    ELSE IF HasNaN(a) \/ HasNaN(b) THEN NaN
    ELSE IF Norm(a) * Norm(b) = 0 THEN NaN
    ELSE (Dot(a, b) * Scale) \div (Norm(a) * Norm(b))

cosine_similarity(a, b) == CosineStrict(a, b)

(* Python's float comparison: every comparison with nan is False *)
Geq(x, y) == x # NaN /\ y # NaN /\ x >= y

VecAdd(a, b) == [i \in 1..Len(a) |-> a[i] + b[i]]

VecScale(a, w) == [i \in 1..Len(a) |-> a[i] * w]

VecDiv(a, d) == [i \in 1..Len(a) |-> a[i] \div d]

RECURSIVE VecSum(_)
VecSum(vs) == IF Len(vs) = 1 THEN vs[1] ELSE VecAdd(vs[1], VecSum(Tail(vs)))

(* np.mean(image_embeddings, axis=0) *)
Mean(vs) == VecDiv(VecSum(vs), Len(vs))

(* combined / np.linalg.norm(combined) *)
Normalize(v) ==
    IF HasNaN(v) \/ Norm(v) = 0 THEN [i \in 1..Len(v) |-> NaN]
    ELSE [i \in 1..Len(v) |-> (v[i] * Scale) \div Norm(v)]

(* text * 0.4 + image * 0.6, the weights in tenths *)
Weighted(t, im) == VecDiv(VecAdd(VecScale(t, TextWeight), VecScale(im, ImageWeight)), 10)

Combine(t, im) == Normalize(Weighted(t, im))

-----------------------------------------------------------------------------
(* Stored columns *)

(* Optional[str] embedding columns: NULL, json.dumps(vector), or other text *)
None == [kind |-> "null", vec |-> <<>>]

Dumps(v) == [kind |-> "json", vec |-> v]

Garbage == [kind |-> "text", vec |-> <<>>]

(* json.loads raises on text that is no JSON document *)
Parses(e) == e.kind = "json"

Loads(e) == e.vec

(* Python truthiness of an Optional[str] column *)
Truthy(e) == e.kind # "null"

Types == {"lost", "found"}

(* Items a request may name, whether or not they are stored *)
RequestIds == {1, 2}

RequestKeys == {<<"lost", 1>>, <<"found", 1>>, <<"lost", 2>>}

ImageIds == 1..MaxImages

Descriptions == {"black wallet", "blue bottle"}

(* The provider's unit vector of a text *)
TextVec(d) ==
    CASE d = "black wallet" -> <<Scale, 0>>
      [] d = "blue bottle" -> <<(3 * Scale) \div 5, (4 * Scale) \div 5>>
      [] d = "red umbrella" -> <<0, Scale>>
      [] OTHER -> <<-Scale, 0>>

(* The file stored for an image row, and the provider's unit vector of it *)
FileOf(id) ==
    CASE id = 1 -> "wallet.jpg"
      [] id = 2 -> "bottle.png"
      [] OTHER -> "umbrella.webp"

ImageVec(f) ==
    CASE f = "wallet.jpg" -> <<(4 * Scale) \div 5, (3 * Scale) \div 5>>
      [] f = "bottle.png" -> <<0, Scale>>
      [] OTHER -> <<-Scale, 0>>

EncodeError == "text encoding failed"

ImageError == "cannot identify image file"

StoreError == "database error"

MathError == "operands could not be broadcast together"

Statuses == {"active", "claimed", "resolved", "expired"}

NewItem(d, loc, st, t) ==
    [description |-> d, location |-> loc, status |-> st, category |-> "others",
     created_at |-> t, updated_at |-> t,
     description_embedding |-> None, image_embedding |-> None,
     combined_embedding |-> None, embedding_model |-> NoneStr,
     embedding_version |-> NoneStr, has_images |-> FALSE]

NewImage(k, f) ==
    [item_type |-> k[1], item_id |-> k[2], file |-> f,
     image_embedding |-> None, embedding_model |-> NoneStr,
     embedding_status |-> "active", processing_error |-> NoneStr,
     processing_attempts |-> 0]

(* db.query(Image).filter(item_id == id, item_type == type).all(), by rowid *)
ItemImages(imgs, k) ==
    {i \in DOMAIN imgs : imgs[i].item_id = k[2] /\ imgs[i].item_type = k[1]}

RECURSIVE SetToSeq(_)
SetToSeq(S) ==
    IF S = {} THEN <<>>
    ELSE LET m == CHOOSE x \in S : \A y \in S : x <= y
         IN <<m>> \o SetToSeq(S \ {m})

-----------------------------------------------------------------------------
(* Embedding Lifecycle Manager: CLIPService.generate_item_embeddings *)

(* Where an unexpected exception is injected into one call *)
FailPoints == {"none", "text", "enumerate", "combine", "commit"}

(* A rollback that leaves the pending writes in the store *)
RollbackLeaky(committed, pending) == pending

(* db.rollback(): the session's pending writes are discarded *)
Rollback(committed, pending) == committed

(* db.commit(): the session's pending writes become the stored rows *)
Commit(committed, pending) == pending

(* A short-circuit test that never fires *)
ShortCircuitNever(item, force) == FALSE

ShortCircuit(item, force) == ~force /\ Truthy(item.combined_embedding)

(* encode_image_file raises for the images whose read or encoding fails in *)
(* this call (flaky)                                                       *)
EncodesOk(img, i, flaky) == i \notin flaky

ImageSuccess(img) ==
    [img EXCEPT !.image_embedding = Dumps(ImageVec(img.file)),
                !.embedding_status = "processed",
                !.embedding_model = ModelName]

ImageFailure(img) ==
    [img EXCEPT !.embedding_status = "failed",
                !.processing_error = ImageError]

(* The for-loop over the attached images: every image is attempted *)
ProcessImages(imgs, att, flaky) ==
    [i \in DOMAIN imgs |->
        IF i \notin att THEN imgs[i]
        ELSE IF EncodesOk(imgs[i], i, flaky) THEN ImageSuccess(imgs[i])
        ELSE ImageFailure(imgs[i])]

(* A loop that also averages the vectors of the images that failed *)
EncodedVectorsAll(imgs, order, flaky) == [n \in 1..Len(order) |-> ImageVec(imgs[order[n]].file)]

RECURSIVE EncodedVectors(_, _, _)
EncodedVectors(imgs, order, flaky) ==
    IF order = <<>> THEN <<>>
    ELSE (IF EncodesOk(imgs[Head(order)], Head(order), flaky)
          THEN <<ImageVec(imgs[Head(order)].file)>> ELSE <<>>)
         \o EncodedVectors(imgs, Tail(order), flaky)

(* A loop without the inner try/except: an image failure reaches the outer handler *)
ImageLoopRaisesLeaky(att, flaky) == att \cap flaky # {}

(* The try/except inside the loop swallows an image's exception: the loop *)
(* itself never raises into the outer handler                            *)
ImageLoopRaises(att, flaky) == FALSE

WithImageEmbeddingNoFlag(item, vecs) ==
    IF vecs # <<>>
    THEN [item EXCEPT !.image_embedding = Dumps(Mean(vecs))]
    ELSE item

(* if image_embeddings: item.image_embedding = mean; item.has_images = True *)
WithImageEmbedding(item, vecs) ==
    IF vecs # <<>>
    THEN [item EXCEPT !.image_embedding = Dumps(Mean(vecs)), !.has_images = TRUE]
    ELSE item

(* np.array(text) * 0.4 + np.array(json.loads(item.image_embedding)) * 0.6 *)
(* raises on an unparseable column or on a shape mismatch                  *)
CombineRaises(item, tv) ==
    /\ Truthy(item.image_embedding)
    /\ (~Parses(item.image_embedding) \/ Len(Loads(item.image_embedding)) # Len(tv))

WithCombined(item, tv) ==
    IF Truthy(item.image_embedding)
    THEN [item EXCEPT !.combined_embedding = Dumps(Combine(tv, Loads(item.image_embedding)))]
    ELSE [item EXCEPT !.combined_embedding = item.description_embedding]

WithMetadata(item, t) ==
    [item EXCEPT !.embedding_model = ModelName,
                 !.embedding_version = EmbeddingVersion,
                 !.updated_at = t]

FailureResult(msg) ==
    [success |-> FALSE, model |-> ModelName, has_text |-> FALSE, has_image |-> FALSE,
     has_combined |-> FALSE, error |-> msg]

(* One call: db is the committed store, k the item, t the clock.  The value *)
(* is the committed store after the call, the returned dict, the number of  *)
(* provider calls made and whether the call committed a recomputation.      *)
generate_item_embeddings(db, k, force, fail, flaky, t) ==
    LET item == db.items[k]
        att == ItemImages(db.images, k)
        tv == TextVec(item.description)
        item1 == [item EXCEPT !.description_embedding = Dumps(tv)]
        imgs1 == ProcessImages(db.images, att, flaky)
        vecs == EncodedVectors(db.images, SetToSeq(att), flaky)
        item2 == WithImageEmbedding(item1, vecs)
        item4 == WithMetadata(WithCombined(item2, tv), t)
        pend1 == [db EXCEPT !.items[k] = item1]
        pend2 == [items |-> [db.items EXCEPT ![k] = item2], images |-> imgs1]
        pend4 == [items |-> [db.items EXCEPT ![k] = item4], images |-> imgs1]
    IN  IF ShortCircuit(item, force) THEN
            [db |-> db, calls |-> 0, recomputed |-> FALSE, encoded |-> {},
             result |-> [success |-> TRUE, model |-> ModelName,
                         has_text |-> Truthy(item.description_embedding),
                         has_image |-> Truthy(item.image_embedding),
                         has_combined |-> Truthy(item.combined_embedding),
                         error |-> NoneStr]]
        ELSE IF fail = "text" THEN
            [db |-> Rollback(db, db), calls |-> 1, recomputed |-> FALSE, encoded |-> {},
             result |-> FailureResult(EncodeError)]
        ELSE IF fail = "enumerate" THEN
            [db |-> Rollback(db, pend1), calls |-> 1, recomputed |-> FALSE, encoded |-> {},
             result |-> FailureResult(StoreError)]
        ELSE IF ImageLoopRaises(att, flaky) THEN
            [db |-> Rollback(db, pend2), calls |-> 1 + Cardinality(att),
             recomputed |-> FALSE, encoded |-> {},
             result |-> FailureResult(ImageError)]
        ELSE IF fail = "combine" \/ CombineRaises(item2, tv) THEN
            [db |-> Rollback(db, pend2), calls |-> 1 + Cardinality(att),
             recomputed |-> FALSE, encoded |-> {},
             result |-> FailureResult(MathError)]
        ELSE IF fail = "commit" THEN
            [db |-> Rollback(db, pend4), calls |-> 1 + Cardinality(att),
             recomputed |-> FALSE, encoded |-> {},
             result |-> FailureResult(StoreError)]
        ELSE
            [db |-> Commit(db, pend4), calls |-> 1 + Cardinality(att),
             recomputed |-> TRUE, encoded |-> att \ flaky,
             result |-> [success |-> TRUE, model |-> ModelName, has_text |-> TRUE,
                         has_image |-> Truthy(item4.image_embedding),
                         has_combined |-> TRUE, error |-> NoneStr]]

-----------------------------------------------------------------------------
(* Endpoints of app/api/v1/clip.py *)

EmbeddingResponse(id, type, r) ==
    [item_id |-> id, item_type |-> type, success |-> r.success,
     embedding_model |-> r.model, has_text_embedding |-> r.has_text,
     has_image_embedding |-> r.has_image,
     has_combined_embedding |-> r.has_combined, error_message |-> r.error]

ErrorResponse(id, type, msg) ==
    [item_id |-> id, item_type |-> type, success |-> FALSE,
     embedding_model |-> "", has_text_embedding |-> FALSE,
     has_image_embedding |-> FALSE, has_combined_embedding |-> FALSE,
     error_message |-> msg]

(* POST /embeddings/generate: the HTTPExceptions are raised inside the try *)
(* and turned into a failed response by its except clause                 *)
generate_embeddings(db, id, type, force, authorized, fail, flaky, t) ==
    IF <<type, id>> \notin DOMAIN db.items THEN
        [db |-> db, calls |-> 0, recomputed |-> FALSE, encoded |-> {},
         response |-> ErrorResponse(id, type, "404: Item not found")]
    ELSE IF ~authorized THEN
        [db |-> db, calls |-> 0, recomputed |-> FALSE, encoded |-> {},
         response |-> ErrorResponse(id, type, "403: Not authorized")]
    ELSE LET r == generate_item_embeddings(db, <<type, id>>, force, fail, flaky, t)
         IN [db |-> r.db, calls |-> r.calls, recomputed |-> r.recomputed,
             encoded |-> r.encoded,
             response |-> EmbeddingResponse(id, type, r.result)]

(* POST /embeddings/batch: one generate_embeddings per id, in input order, on *)
(* the same session; fails[i] is the exception injected into the i-th call    *)
TallyUncounted(acc, response) ==
    [results |-> Append(acc.results, response),
     successful |-> acc.successful + (IF response.success THEN 1 ELSE 0),
     failed |-> acc.failed]

(* results.append(result) and the two counters *)
Tally(acc, response) ==
    [results |-> Append(acc.results, response),
     successful |-> acc.successful + (IF response.success THEN 1 ELSE 0),
     failed |-> acc.failed + (IF response.success THEN 0 ELSE 1)]

RECURSIVE BatchLoopAborts(_, _, _, _, _, _, _)
BatchLoopAborts(db, ids, type, force, fails, t, acc) ==
    IF Len(acc.results) = Len(ids) THEN [db |-> db, acc |-> acc]
    ELSE LET i == Len(acc.results) + 1
             r == generate_embeddings(db, ids[i], type, force, TRUE, fails[i], {}, t)
         IN IF r.response.success
            THEN BatchLoopAborts(r.db, ids, type, force, fails, t, Tally(acc, r.response))
            ELSE [db |-> r.db, acc |-> Tally(acc, r.response)]

RECURSIVE BatchLoop(_, _, _, _, _, _, _)
BatchLoop(db, ids, type, force, fails, t, acc) ==
    IF Len(acc.results) = Len(ids) THEN [db |-> db, acc |-> acc]
    ELSE LET i == Len(acc.results) + 1
             r == generate_embeddings(db, ids[i], type, force, TRUE, fails[i], {}, t)
         IN BatchLoop(r.db, ids, type, force, fails, t, Tally(acc, r.response))

generate_batch_embeddings(db, ids, type, force, fails, t) ==
    LET r == BatchLoop(db, ids, type, force, fails, t,
                       [results |-> <<>>, successful |-> 0, failed |-> 0])
    IN [db |-> r.db,
        response |-> [total_items |-> Len(ids), successful |-> r.acc.successful,
                      failed |-> r.acc.failed, results |-> r.acc.results]]

(* DELETE /embeddings/cleanup: the WHERE clause of the two bulk updates *)
StaleInclusive(item, cutoff) ==
    item.updated_at <= cutoff /\ item.combined_embedding.kind # "null"

(* filter(updated_at < cutoff_date, combined_embedding.isnot(None)) *)
Stale(item, cutoff) ==
    item.updated_at < cutoff /\ item.combined_embedding.kind # "null"

(* A cleanup that forgets the text embedding column *)
ClearedKeepsText(item) ==
    [item EXCEPT !.image_embedding = None, !.combined_embedding = None,
                 !.embedding_model = NoneStr, !.embedding_version = NoneStr]

(* A cleanup that forgets the image embedding column *)
ClearedKeepsImage(item) ==
    [item EXCEPT !.description_embedding = None, !.combined_embedding = None,
                 !.embedding_model = NoneStr, !.embedding_version = NoneStr]

Cleared(item) ==
    [item EXCEPT !.description_embedding = None, !.image_embedding = None,
                 !.combined_embedding = None, !.embedding_model = NoneStr,
                 !.embedding_version = NoneStr]

cleanup_old_embeddings(db, older_than_days, t) ==
    LET cutoff == t - older_than_days * DayLen
        hit(type) == {k \in DOMAIN db.items : k[1] = type /\ Stale(db.items[k], cutoff)}
    IN [db |-> [db EXCEPT !.items =
                    [k \in DOMAIN db.items |->
                        IF Stale(db.items[k], cutoff) THEN Cleared(db.items[k])
                        ELSE db.items[k]]],
        response |-> [lost_items_updated |-> Cardinality(hit("lost")),
                      found_items_updated |-> Cardinality(hit("found"))]]

-----------------------------------------------------------------------------
(* State *)

(* The local zone's offset from UTC, in clock units, of a server that runs *)
(* in UTC                                                                  *)
UtcOffset == 0

DB == [items |-> items, images |-> images]

NoOp == [op |-> "none"]

NoSessions == <<>>

(* The similarity_matches table, empty *)
NoMatches == <<>>

LocationOf(k) == IF k[1] = "lost" THEN "Library" ELSE "library"

DescriptionOf(k) == IF k[2] = 1 THEN "black wallet" ELSE "blue bottle"

(* The items of the lifecycle specification *)
EmbedKeys == {<<"lost", 1>>}

InitEmbed ==
    /\ items = [k \in EmbedKeys |-> NewItem(DescriptionOf(k), LocationOf(k), "active", 0)]
    /\ images = <<>>
    /\ now = 0
    /\ utc_offset = UtcOffset
    /\ last = NoOp
    /\ sess = NoSessions
    /\ similarity_matches = NoMatches

-----------------------------------------------------------------------------
(* Actions: each handler runs to completion *)

GenerateEmbeddings ==
    \E k \in RequestKeys, force \in BOOLEAN, fail \in FailPoints \cup {"auth"} :
      \E flaky \in SUBSET ItemImages(images, k) :
        LET r == generate_embeddings(DB, k[2], k[1], force, fail # "auth", fail, flaky, now)
        IN /\ fail # "none" => flaky = {}
           /\ k \notin DOMAIN items => fail = "none" /\ ~force
           /\ (k \in DOMAIN items /\ fail # "auth" /\ ShortCircuit(items[k], force))
                 => fail = "none" /\ flaky = {}
           /\ items' = r.db.items
           /\ images' = r.db.images
           /\ last' = [op |-> "generate", key |-> k, force |-> force, fail |-> fail,
                       response |-> r.response, calls |-> r.calls,
                       recomputed |-> r.recomputed, encoded |-> r.encoded]
           /\ UNCHANGED <<now, utc_offset, sess, similarity_matches>>

BatchIds == UNION {[1..n -> RequestIds] : n \in 0..MaxBatch}

(* POST /embeddings/batch with the id list drawn from lists; the provider  *)
(* or the store fails during at most one of the calls of a request        *)
BatchRequest(lists) ==
    \E ids \in lists, type \in Types, force \in BOOLEAN :
      \E fails \in [1..Len(ids) -> {"none", "text", "commit"}] :
        LET r == generate_batch_embeddings(DB, ids, type, force, fails, now)
        IN /\ \A i \in 1..Len(ids) : <<type, ids[i]>> \notin DOMAIN items => fails[i] = "none"
           /\ \A i \in 1..Len(ids), j \in 1..Len(ids) :
                 (fails[i] # "none" /\ fails[j] # "none") => i = j
           /\ (\A i \in 1..Len(ids) : <<type, ids[i]>> \notin DOMAIN items) => ~force
           /\ items' = r.db.items
           /\ images' = r.db.images
           /\ last' = [op |-> "batch", ids |-> ids, type |-> type, force |-> force,
                       fails |-> fails, response |-> r.response]
           /\ UNCHANGED <<now, utc_offset, sess, similarity_matches>>

GenerateBatchEmbeddings == BatchRequest(BatchIds)

CleanupOldEmbeddings ==
    \E days \in {-1, 0, 1} :
        LET r == cleanup_old_embeddings(DB, days, now)
        IN /\ items' = r.db.items
           /\ images' = r.db.images
           /\ last' = [op |-> "cleanup", days |-> days, response |-> r.response]
           /\ UNCHANGED <<now, utc_offset, sess, similarity_matches>>

(* An image row is attached to an existing item (its id is the next rowid) *)
AttachImage ==
    \E k \in DOMAIN items :
        LET id == Cardinality(DOMAIN images) + 1
        IN /\ id <= MaxImages
           /\ images' = [i \in DOMAIN images \cup {id} |->
                            IF i = id THEN NewImage(k, FileOf(id)) ELSE images[i]]
           /\ last' = [op |-> "attach", image |-> id]
           /\ UNCHANGED <<items, now, utc_offset, sess, similarity_matches>>

(* DELETE /images/{image_id}; the model deletes the newest row, so that ids *)
(* stay 1..n                                                               *)
DeleteImage ==
    /\ DOMAIN images # {}
    /\ LET id == Cardinality(DOMAIN images)
       IN /\ images' = [i \in DOMAIN images \ {id} |-> images[i]]
          /\ last' = [op |-> "delete_image", image |-> id]
    /\ UNCHANGED <<items, now, utc_offset, sess, similarity_matches>>

NextEmbed ==
    \/ GenerateEmbeddings
    \/ GenerateBatchEmbeddings
    \/ CleanupOldEmbeddings
    \/ AttachImage
    \/ DeleteImage

Spec == InitEmbed /\ [][NextEmbed]_vars

-----------------------------------------------------------------------------
(* Properties of the embedding lifecycle, checked under Spec *)

(* The last step was a call that reached generate_item_embeddings *)
IsServiceCall(l) == l.op = "generate" /\ l.key \in DOMAIN items /\ l.fail # "auth"

Attached(l) == ItemImages(images, l.key)

(* C1: in every reachable state each item's combined_embedding is defined *)
(* if and only if its description_embedding is defined.                   *)
C1_CombinedIffText ==
    \A k \in DOMAIN items :
        Truthy(items[k].combined_embedding) <=> Truthy(items[k].description_embedding)

C1_Witness ==
    /\ last.op = "cleanup"
    /\ last.response.lost_items_updated = 1
    /\ \A k \in DOMAIN items : ~Truthy(items[k].combined_embedding)

(* C2: after a committed recomputation in which no image was encoded, the *)
(* item has no image_embedding and its combined_embedding equals its      *)
(* description_embedding.                                                 *)
C2_NoImageMeansTextOnly ==
    (IsServiceCall(last) /\ last.recomputed /\ last.encoded = {}) =>
        /\ items[last.key].image_embedding = None
        /\ items[last.key].combined_embedding = items[last.key].description_embedding

(* C3: after a committed recomputation in which at least one image was   *)
(* encoded, image_embedding is the mean of exactly the vectors encoded in *)
(* that call and combined_embedding is normalize(0.4 text + 0.6 image).   *)
MeanOfEncoded(l) ==
    LET order == SetToSeq(l.encoded)
    IN Mean([n \in 1..Len(order) |-> ImageVec(images[order[n]].file)])

C3_MeanAndWeightedCombination ==
    (IsServiceCall(last) /\ last.recomputed /\ last.encoded # {}) =>
        LET item == items[last.key]
        IN /\ item.description_embedding = Dumps(TextVec(item.description))
           /\ item.image_embedding = Dumps(MeanOfEncoded(last))
           /\ item.combined_embedding =
                 Dumps(Normalize(Weighted(TextVec(item.description), MeanOfEncoded(last))))

C3_Witness ==
    /\ IsServiceCall(last) /\ last.recomputed
    /\ Cardinality(last.encoded) = 2
    /\ Attached(last) \ last.encoded = {}
    /\ items[last.key].combined_embedding # items[last.key].description_embedding

(* C4: a call with force = false on an item that has a combined_embedding *)
(* returns success, makes no provider call and changes no item and no     *)
(* image row.                                                             *)
C4_ShortCircuitNoChange ==
    [][(/\ IsServiceCall(last')
        /\ ~last'.force
        /\ Truthy(items[last'.key].combined_embedding))
       => (/\ last'.response.success
           /\ last'.calls = 0
           /\ items' = items
           /\ images' = images)]_vars

C4_Witness ==
    /\ IsServiceCall(last) /\ ~last.force
    /\ last.calls = 0 /\ last.response.success
    /\ Truthy(items[last.key].image_embedding)

(* C5: with no failure other than image failures, the call succeeds with  *)
(* has_text and has_combined; when it recomputes, every attached image is *)
(* attempted, the text embedding is stored and the images that encoded    *)
(* are stored as processed.                                               *)
C5_ImageFailureIsolated ==
    (IsServiceCall(last) /\ last.fail = "none") =>
        /\ last.response.success
        /\ last.response.has_text_embedding
        /\ last.response.has_combined_embedding
        /\ last.recomputed =>
            /\ last.calls = 1 + Cardinality(Attached(last))
            /\ items[last.key].description_embedding
                  = Dumps(TextVec(items[last.key].description))
            /\ \A i \in last.encoded :
                  /\ images[i].embedding_status = "processed"
                  /\ images[i].image_embedding = Dumps(ImageVec(images[i].file))

C5_Witness ==
    /\ IsServiceCall(last) /\ last.recomputed
    /\ last.encoded # {}
    /\ Attached(last) \ last.encoded # {}
    /\ last.response.success

(* C6: in a committed recomputation every image that failed ends failed,  *)
(* with the error text stored and its retry counter one greater than      *)
(* before; every image that encoded is not failed and keeps its counter.  *)
C6_FailedImageCounted ==
    [][(IsServiceCall(last') /\ last'.recomputed) =>
        \A i \in ItemImages(images', last'.key) :
            IF i \in last'.encoded
            THEN /\ images'[i].embedding_status # "failed"
                 /\ images'[i].processing_attempts = images[i].processing_attempts
            ELSE /\ images'[i].embedding_status = "failed"
                 /\ images'[i].processing_error = ImageError
                 /\ images'[i].processing_attempts = images[i].processing_attempts + 1]_vars

(* C7: a call that fails at any step returns success = false with an      *)
(* error text and leaves every item and image row as it was.              *)
C7_FailureLeavesStoreUnchanged ==
    [][(IsServiceCall(last') /\ last'.fail # "none") =>
        /\ ~last'.response.success
        /\ last'.response.error_message # NoneStr
        /\ ~last'.recomputed
        /\ items' = items
        /\ images' = images]_vars

C7_Witness ==
    /\ IsServiceCall(last)
    /\ last.fail = "commit"
    /\ ~last.response.success
    /\ Attached(last) # {}
    /\ ~Truthy(items[last.key].combined_embedding)

-----------------------------------------------------------------------------
(* Two requests on one item, each with its own Session (get_db opens one   *)
(* per request).  A session reads the item row, later reads the image rows *)
(* and at commit writes the attributes it changed; the store is touched at *)
(* these three points only, so they are the steps that can interleave.     *)
(* Nothing in generate_embeddings or generate_item_embeddings locks the    *)
(* row, selects it for update or checks a version.                         *)

Procs == {1, 2}

ConcKey == <<"lost", 1>>

Idle == [pc |-> "idle"]

InitConc ==
    /\ items = [k \in {ConcKey} |-> NewItem(DescriptionOf(k), LocationOf(k), "active", 0)]
    /\ \E n \in 1..MaxImages : images = [i \in 1..n |-> NewImage(ConcKey, FileOf(i))]
    /\ now = 0
    /\ utc_offset = UtcOffset
    /\ last = NoOp
    /\ sess = [p \in Procs |-> Idle]
    /\ similarity_matches = NoMatches

(* db.query(LostItem).filter(id == item_id).first(), then lines 113-125:   *)
(* the short-circuit test on the row just read                             *)
LoadItem(p) ==
    /\ sess[p].pc = "idle"
    /\ \E force \in BOOLEAN :
        sess' = [sess EXCEPT ![p] =
            IF ShortCircuit(items[ConcKey], force)
            THEN [pc |-> "done", force |-> force, flaky |-> {}, wrote |-> FALSE]
            ELSE [pc |-> "loaded", force |-> force, loaded |-> items[ConcKey]]]
    /\ UNCHANGED <<items, images, now, utc_offset, last, similarity_matches>>

(* Lines 125-176 on the session's copies: the text vector, the image rows *)
(* read now, every image attempted, the combination and the metadata      *)
QueryImages(p) ==
    /\ sess[p].pc = "loaded"
    /\ \E flaky \in SUBSET ItemImages(images, ConcKey) :
        LET s == sess[p]
            att == ItemImages(images, ConcKey)
            tv == TextVec(s.loaded.description)
            item1 == [s.loaded EXCEPT !.description_embedding = Dumps(tv)]
            vecs == EncodedVectors(images, SetToSeq(att), flaky)
            item2 == WithImageEmbedding(item1, vecs)
        IN sess' = [sess EXCEPT ![p] =
              IF CombineRaises(item2, tv)
              THEN [pc |-> "done", force |-> s.force, flaky |-> flaky, wrote |-> FALSE]
              ELSE [pc |-> "pending", force |-> s.force, flaky |-> flaky,
                    loaded |-> s.loaded,
                    item |-> WithMetadata(WithCombined(item2, tv), now),
                    imgsLoaded |-> images,
                    imgs |-> ProcessImages(images, att, flaky)]]
    /\ UNCHANGED <<items, images, now, utc_offset, last, similarity_matches>>

(* The UPDATE a flush emits for one row: the attributes whose value differs *)
(* from the value the session read, written over the stored row             *)
FlushRow(stored, loaded, current) ==
    [f \in DOMAIN stored |-> IF current[f] # loaded[f] THEN current[f] ELSE stored[f]]

(* db.commit() *)
CommitSession(p) ==
    /\ sess[p].pc = "pending"
    /\ items' = [items EXCEPT ![ConcKey] = FlushRow(@, sess[p].loaded, sess[p].item)]
    /\ images' = [i \in DOMAIN images |->
                    FlushRow(images[i], sess[p].imgsLoaded[i], sess[p].imgs[i])]
    /\ sess' = [sess EXCEPT ![p] =
                  [pc |-> "done", force |-> sess[p].force, flaky |-> sess[p].flaky,
                   wrote |-> TRUE]]
    /\ last' = [op |-> "commit", proc |-> p]
    /\ UNCHANGED <<now, utc_offset, similarity_matches>>

NextConc == \E p \in Procs : LoadItem(p) \/ QueryImages(p) \/ CommitSession(p)

SpecConc == InitConc /\ [][NextConc]_vars

(* The two calls run one after the other from the initial store *)
ConcInitDB ==
    [items |-> [k \in {ConcKey} |-> NewItem(DescriptionOf(k), LocationOf(k), "active", 0)],
     images |-> [i \in DOMAIN images |-> NewImage(ConcKey, FileOf(i))]]

Serial(first, second) ==
    LET r1 == generate_item_embeddings(ConcInitDB, ConcKey, sess[first].force, "none",
                                       sess[first].flaky, now)
    IN generate_item_embeddings(r1.db, ConcKey, sess[second].force, "none",
                                sess[second].flaky, now).db

AllDone == \A p \in Procs : sess[p].pc = "done"

(* combined_embedding is the combination of the stored text and image vectors *)
Combined(item) ==
    IF Truthy(item.image_embedding)
    THEN item.combined_embedding =
            Dumps(Combine(Loads(item.description_embedding), Loads(item.image_embedding)))
    ELSE item.combined_embedding = item.description_embedding

(* C8: whatever the interleaving of two calls on one item, the committed   *)
(* rows are those of the two calls run one after the other in some order,  *)
(* and combined_embedding is the combination of the committed text and     *)
(* image embeddings.                                                       *)
C8_CallsSerializable ==
    AllDone =>
        /\ DB \in {Serial(1, 2), Serial(2, 1)}
        /\ Combined(items[ConcKey])

-----------------------------------------------------------------------------
(* Similarity search: find_similar_items and the two ad-hoc searches.       *)
(* Similarities are in units of 1/Scale, bonuses in tenths, so a            *)
(* confidence_level is in units of 1/(Scale * 100).                         *)

(* The characters of a location string *)
Chars(s) ==
    CASE s = "Library" -> <<"L", "i", "b", "r", "a", "r", "y">>
      [] s = "library" -> <<"l", "i", "b", "r", "a", "r", "y">>
      [] s = "Lab" -> <<"L", "a", "b">>
      [] s = "lab" -> <<"l", "a", "b">>
      [] s = "lab 2" -> <<"l", "a", "b", " ", "2">>
      [] s = "la" -> <<"l", "a">>
      [] s = "gym" -> <<"g", "y", "m">>
      [] OTHER -> <<>>

(* str.lower(), character by character *)
LowerChar(c) ==
    CASE c = "L" -> "l"
      [] c = "G" -> "g"
      [] OTHER -> c

Lower(cs) == [i \in 1..Len(cs) |-> LowerChar(cs[i])]

(* str.split(): the maximal runs of non-blank characters, left to right *)
RECURSIVE SplitFrom(_, _, _)
SplitFrom(cs, i, word) ==
    IF i > Len(cs) THEN (IF word = <<>> THEN <<>> ELSE <<word>>)
    ELSE IF cs[i] = " "
         THEN (IF word = <<>> THEN <<>> ELSE <<word>>) \o SplitFrom(cs, i + 1, <<>>)
         ELSE SplitFrom(cs, i + 1, Append(word, cs[i]))

Split(cs) == SplitFrom(cs, 1, <<>>)

(* word in text, on strings: word occurs as a contiguous substring *)
Contains(text, word) ==
    \E i \in 0..(Len(text) - Len(word)) : SubSeq(text, i + 1, i + Len(word)) = word

AnyWordIn(words, text) == \E i \in 1..Len(words) : Contains(text, words[i])

SameLocationBonus == 12
SimilarLocationBonus == 11
NoBonus == 10

_calculate_location_bonus(item1, item2) ==
    LET loc1 == Lower(Chars(item1.location))
        loc2 == Lower(Chars(item2.location))
    IN  IF loc1 = loc2 THEN SameLocationBonus
        ELSE IF AnyWordIn(Split(loc1), loc2) \/ AnyWordIn(Split(loc2), loc1)
             THEN SimilarLocationBonus
             ELSE NoBonus

VeryRecentDays == 1
RecentDays == 7
NormalDays == 30
VeryRecentBonus == 12
RecentBonus == 11
OlderBonus == 9

(* timedelta.days: whole days, rounded towards minus infinity *)
DaysOld(t, created_at) == (t - created_at) \div DayLen

_calculate_time_bonus(item, t) ==
    LET days_old == DaysOld(t, item.created_at)
    IN  IF days_old <= VeryRecentDays THEN VeryRecentBonus
        ELSE IF days_old <= RecentDays THEN RecentBonus
        ELSE IF days_old <= NormalDays THEN NoBonus
        ELSE OlderBonus

(* list.sort(key=..., reverse=True): stable, descending by key(x) *)
RECURSIVE InsertDesc(_, _, _)
InsertDesc(sorted, x, key) ==
    IF sorted = <<>> THEN <<x>>
    ELSE IF sorted[1][key] >= x[key]
         THEN <<sorted[1]>> \o InsertDesc(Tail(sorted), x, key)
         ELSE <<x>> \o sorted

RECURSIVE SortDescFrom(_, _, _, _)
SortDescFrom(ms, i, key, acc) ==
    IF i > Len(ms) THEN acc
    ELSE SortDescFrom(ms, i + 1, key, InsertDesc(acc, ms[i], key))

SortDescUnstable(ms, key) ==
    SortDescFrom([i \in 1..Len(ms) |-> ms[Len(ms) + 1 - i]], 1, key, <<>>)

SortDesc(ms, key) == SortDescFrom(ms, 1, key, <<>>)

TruncateKeepsAll(ms, max_results) == ms

(* matches[:max_results], a negative bound counting from the end *)
Truncate(ms, max_results) ==
    IF max_results >= 0
    THEN SubSeq(ms, 1, IF max_results < Len(ms) THEN max_results ELSE Len(ms))
    ELSE SubSeq(ms, 1, Len(ms) + max_results)

(* The tables a find_similar_items call scans, in scan order *)
target_tables(query_type, target_type) ==
    (IF target_type = "lost" \/ (target_type = NoneStr /\ query_type = "found")
     THEN <<"lost">> ELSE <<>>)
    \o (IF target_type = "found" \/ (target_type = NoneStr /\ query_type = "lost")
        THEN <<"found">> ELSE <<>>)

(* The tables an ad-hoc search scans, in scan order *)
search_tables(item_type) ==
    (IF item_type = "lost" \/ item_type = NoneStr THEN <<"lost">> ELSE <<>>)
    \o (IF item_type = "found" \/ item_type = NoneStr THEN <<"found">> ELSE <<>>)

EligibleAnyStatus(item, column) == item[column] # None

(* filter(column.isnot(None), status == "active") *)
Eligible(item, column) == item[column] # None /\ item.status = "active"

(* if category: filter(category == category) *)
InCategory(item, category) == category = NoneStr \/ item.category = category

(* query.all(): the selected rows of one table, by id *)
TableRows(db, type, column, category) ==
    LET ids == {k[2] : k \in {x \in DOMAIN db.items :
                    /\ x[1] = type
                    /\ Eligible(db.items[x], column)
                    /\ InCategory(db.items[x], category)}}
        ordered == SetToSeq(ids)
    IN  [i \in 1..Len(ordered) |-> <<type, ordered[i]>>]

RECURSIVE AllRows(_, _, _, _)
AllRows(db, tables, column, category) ==
    IF tables = <<>> THEN <<>>
    ELSE TableRows(db, tables[1], column, category)
         \o AllRows(db, Tail(tables), column, category)

(* if item.id == query_item.id and table_type == query_type: continue *)
SkipSelf(k, query_key) == k[2] = query_key[2] /\ k[1] = query_key[1]

PassesStrictly(similarity, threshold) ==
    similarity # NaN /\ threshold # NaN /\ similarity > threshold

(* if similarity >= threshold *)
Passes(similarity, threshold) == Geq(similarity, threshold)

(* db.query(Image).filter(item_id == id, item_type == type).count() *)
ImageCount(db, k) == Cardinality(ItemImages(db.images, k))

(* A bonus of 0 stands for None: the boost was not requested *)
MatchEntry(item, k, similarity, confidence, match_type, lbonus, tbonus, count) ==
    [item_id |-> k[2], item_type |-> k[1], description |-> item.description,
     category |-> item.category, location |-> item.location,
     similarity_score |-> similarity, confidence_level |-> confidence,
     match_type |-> match_type, location_bonus |-> lbonus, time_bonus |-> tbonus,
     date_created |-> item.created_at, image_count |-> count]

(* One pass of the candidate loop of find_similar_items *)
RECURSIVE ScanSimilar(_, _, _, _, _, _, _, _)
ScanSimilar(db, rows, query_key, query_embedding, threshold, lboost, tboost, t) ==
    IF rows = <<>> THEN <<>>
    ELSE
      LET k == rows[1]
          item == db.items[k]
          rest == ScanSimilar(db, Tail(rows), query_key, query_embedding,
                              threshold, lboost, tboost, t)
          similarity == cosine_similarity(query_embedding, Loads(item.combined_embedding))
          location_bonus == IF lboost
                            THEN _calculate_location_bonus(db.items[query_key], item)
                            ELSE NoBonus
          time_bonus == IF tboost THEN _calculate_time_bonus(item, t) ELSE NoBonus
      IN  IF SkipSelf(k, query_key) THEN rest
          ELSE IF ~Parses(item.combined_embedding) THEN rest
          ELSE IF ~Passes(similarity, threshold) THEN rest
          ELSE <<MatchEntry(item, k, similarity,
                            similarity * location_bonus * time_bonus,
                            "combined_similarity",
                            IF lboost THEN location_bonus ELSE 0,
                            IF tboost THEN time_bonus ELSE 0,
                            ImageCount(db, k))>> \o rest

MatchesAfterSearchRecorded(ms, query_key, scanned) ==
    IF scanned = <<>> THEN ms
    ELSE LET id == Cardinality(DOMAIN ms) + 1
         IN  [i \in DOMAIN ms \cup {id} |->
                IF i \in DOMAIN ms THEN ms[i]
                ELSE [lost_item_id |-> query_key[2], found_item_id |-> scanned[1].item_id,
                      status |-> "pending"]]

(* The similarity_matches table after a search: find_similar_items and the  *)
(* ad-hoc searches add nothing to the session and commit nothing            *)
MatchesAfterSearch(ms, query_key, scanned) == ms

NoEmbeddings == "Query item has no embeddings"
DecodeError == "Expecting value"

HasEmbeddingsAlways(query_item) == TRUE

(* if not query_item.combined_embedding: raise ValueError *)
HasEmbeddings(query_item) == Truthy(query_item.combined_embedding)

find_similar_items(db, query_key, target_type, threshold, max_results, lboost, tboost, t) ==
    LET query_item == db.items[query_key]
        rows == AllRows(db, target_tables(query_key[1], target_type),
                        "combined_embedding", NoneStr)
        scanned == ScanSimilar(db, rows, query_key, Loads(query_item.combined_embedding),
                               threshold, lboost, tboost, t)
    IN  IF ~HasEmbeddings(query_item)
        THEN [raised |-> NoEmbeddings, rows |-> <<>>, scanned |-> <<>>, matches |-> <<>>]
        ELSE IF ~Parses(query_item.combined_embedding)
        THEN [raised |-> DecodeError, rows |-> <<>>, scanned |-> <<>>, matches |-> <<>>]
        ELSE [raised |-> NoneStr, rows |-> rows, scanned |-> scanned,
              matches |-> Truncate(SortDesc(scanned, "confidence_level"), max_results)]

(* One pass of the candidate loop of an ad-hoc search over one column *)
RECURSIVE ScanAdhoc(_, _, _, _, _, _)
ScanAdhoc(db, rows, column, query_embedding, threshold, match_type) ==
    IF rows = <<>> THEN <<>>
    ELSE
      LET k == rows[1]
          item == db.items[k]
          rest == ScanAdhoc(db, Tail(rows), column, query_embedding, threshold, match_type)
          similarity == cosine_similarity(query_embedding, Loads(item[column]))
      IN  IF ~Parses(item[column]) THEN rest
          ELSE IF ~Passes(similarity, threshold) THEN rest
          ELSE <<MatchEntry(item, k, similarity, similarity, match_type, 0, 0,
                            IF match_type = "image_similarity"
                            THEN ImageCount(db, k) ELSE 0)>> \o rest

search_by_text_embedding(db, query_embedding, item_type, category, threshold, max_results) ==
    LET rows == AllRows(db, search_tables(item_type), "combined_embedding", category)
        scanned == ScanAdhoc(db, rows, "combined_embedding", query_embedding,
                             threshold, "text_similarity")
    IN  [rows |-> rows, scanned |-> scanned,
         matches |-> Truncate(SortDesc(scanned, "similarity_score"), max_results)]

search_by_image_embedding(db, query_embedding, item_type, category, threshold, max_results) ==
    LET rows == AllRows(db, search_tables(item_type), "image_embedding", category)
        scanned == ScanAdhoc(db, rows, "image_embedding", query_embedding,
                             threshold, "image_similarity")
    IN  [rows |-> rows, scanned |-> scanned,
         matches |-> Truncate(SortDesc(scanned, "similarity_score"), max_results)]

SimilarityResponse(id, type, matches) ==
    [status |-> 200, query_item_id |-> id, query_item_type |-> type,
     total_matches |-> Len(matches), embedding_model |-> ModelName,
     algorithm_version |-> EmbeddingVersion, matches |-> matches]

HTTPError(code, detail) == [status |-> code, detail |-> detail, matches |-> <<>>]

(* datetime.utcnow() on the clock that datetime.now() reads as t *)
utcnow(t) == t - utc_offset

-----------------------------------------------------------------------------
(* The search specification: three items, one image, and the searches *)

SearchKeys == {<<"lost", 1>>, <<"found", 1>>, <<"found", 2>>}

SearchNow == 40 * DayLen

AgeDaysOf(k) ==
    CASE k = <<"lost", 1>> -> 0
      [] k = <<"found", 2>> -> 5
      [] OTHER -> 31

SearchLocationOf(k) ==
    CASE k = <<"lost", 1>> -> "Lab"
      [] k = <<"found", 2>> -> "lab 2"
      [] OTHER -> "lab"

CategoryOf(k) == IF k = <<"found", 2>> THEN "keys" ELSE "others"

SearchItem(k) ==
    [NewItem("black wallet", SearchLocationOf(k), "active",
             SearchNow - AgeDaysOf(k) * DayLen)
     EXCEPT !.category = CategoryOf(k)]

InitSearch ==
    /\ items = [k \in SearchKeys |-> SearchItem(k)]
    /\ images = <<NewImage(<<"found", 2>>, "bottle.png")>>
    /\ now = SearchNow
    /\ utc_offset = UtcOffset
    /\ last = NoOp
    /\ sess = NoSessions
    /\ similarity_matches = NoMatches

SearchOps == {"find", "text_search", "image_search"}

Thresholds == {0, 6, 10}

MaxResults == 2

(* generate_embeddings on a stored item; an attached image may fail to encode *)
EnsureEmbeddings ==
    \E k \in DOMAIN items : \E flaky \in SUBSET ItemImages(images, k) :
      LET r == generate_embeddings(DB, k[2], k[1], FALSE, TRUE, "none", flaky, now)
      IN  /\ ShortCircuit(items[k], FALSE) => flaky = {}
          /\ items' = r.db.items
          /\ images' = r.db.images
          /\ last' = [op |-> "generate", key |-> k, force |-> FALSE, fail |-> "none",
                      response |-> r.response, calls |-> r.calls,
                      recomputed |-> r.recomputed, encoded |-> r.encoded]
          /\ UNCHANGED <<now, utc_offset, sess, similarity_matches>>

(* update_lost_item_status / update_found_item_status by the owner *)
UpdateItemStatus ==
    \E k \in DOMAIN items, new_status \in {"active", "claimed"} :
      /\ new_status \in Statuses
      /\ items' = [items EXCEPT ![k].status = new_status,
                                ![k].updated_at = utcnow(now)]
      /\ last' = [op |-> "status", key |-> k, status |-> new_status]
      /\ UNCHANGED <<images, now, utc_offset, sess, similarity_matches>>

(* POST /similarity/find.  The searches write nothing, so a search that     *)
(* follows a search reaches no new state and is not taken.                  *)
FindSimilarItems ==
    \E k \in SearchKeys \cup {<<"lost", 2>>}, target_type \in Types \cup {NoneStr},
       threshold \in Thresholds, max_results \in 0..MaxResults,
       lboost \in BOOLEAN, tboost \in BOOLEAN :
      /\ last.op \notin SearchOps
      /\ k \notin DOMAIN items =>
            /\ target_type = NoneStr /\ threshold = 6 /\ max_results = 0
            /\ lboost /\ tboost
      /\ LET r == IF k \in DOMAIN items
                  THEN find_similar_items(DB, k, target_type, threshold, max_results,
                                          lboost, tboost, now)
                  ELSE [raised |-> NoneStr, rows |-> <<>>, scanned |-> <<>>,
                        matches |-> <<>>]
         IN  /\ last' = [op |-> "find", key |-> k, target_type |-> target_type,
                      threshold |-> threshold, max_results |-> max_results,
                      lboost |-> lboost, tboost |-> tboost,
                      rows |-> r.rows, scanned |-> r.scanned,
                      response |->
                        IF k \notin DOMAIN items
                        THEN HTTPError(404, "Query item not found")
                        ELSE IF r.raised # NoneStr THEN HTTPError(500, r.raised)
                        ELSE SimilarityResponse(k[2], k[1], r.matches)]
             /\ similarity_matches' = MatchesAfterSearch(similarity_matches, k, r.scanned)
      /\ UNCHANGED <<items, images, now, utc_offset, sess>>

(* POST /search/text *)
SemanticTextSearch ==
    \E query \in Descriptions, item_type \in Types \cup {NoneStr},
       category \in {NoneStr, "keys"}, threshold \in Thresholds,
       max_results \in 0..MaxResults, fails \in BOOLEAN :
      /\ last.op \notin SearchOps
      /\ fails => /\ item_type = NoneStr /\ category = NoneStr
                  /\ threshold = 6 /\ max_results = 0
      /\ LET r == search_by_text_embedding(DB, TextVec(query), item_type, category,
                                           threshold, max_results)
         IN  last' = [op |-> "text_search", query |-> query, item_type |-> item_type,
                      category |-> category, threshold |-> threshold,
                      max_results |-> max_results,
                      rows |-> IF fails THEN <<>> ELSE r.rows,
                      scanned |-> IF fails THEN <<>> ELSE r.scanned,
                      response |-> IF fails THEN HTTPError(500, EncodeError)
                                   ELSE SimilarityResponse(0, "text_search", r.matches)]
      /\ UNCHANGED <<items, images, now, utc_offset, sess, similarity_matches>>

UploadFiles == {"wallet.jpg", "bottle.png", "notes.txt"}

ContentTypeOf(file) ==
    CASE file = "wallet.jpg" -> "image"
      [] file = "bottle.png" -> "image"
      [] OTHER -> "text"

(* POST /search/image *)
VisualImageSearch ==
    \E file \in UploadFiles, item_type \in Types \cup {NoneStr},
       category \in {NoneStr, "keys"}, threshold \in Thresholds,
       max_results \in 0..MaxResults, fails \in BOOLEAN :
      /\ last.op \notin SearchOps
      /\ (fails \/ ContentTypeOf(file) # "image") =>
            /\ item_type = NoneStr /\ category = NoneStr
            /\ threshold = 6 /\ max_results = 0
      /\ ContentTypeOf(file) # "image" => ~fails
      /\ LET r == search_by_image_embedding(DB, ImageVec(file), item_type, category,
                                            threshold, max_results)
             ran == ContentTypeOf(file) = "image" /\ ~fails
         IN  last' = [op |-> "image_search", file |-> file, item_type |-> item_type,
                      category |-> category, threshold |-> threshold,
                      max_results |-> max_results,
                      rows |-> IF ran THEN r.rows ELSE <<>>,
                      scanned |-> IF ran THEN r.scanned ELSE <<>>,
                      response |->
                        IF ContentTypeOf(file) # "image"
                        THEN HTTPError(400, "File must be an image")
                        ELSE IF fails THEN HTTPError(500, ImageError)
                        ELSE SimilarityResponse(0, "image_search", r.matches)]
      /\ UNCHANGED <<items, images, now, utc_offset, sess, similarity_matches>>

NextSearch ==
    \/ EnsureEmbeddings
    \/ UpdateItemStatus
    \/ FindSimilarItems
    \/ SemanticTextSearch
    \/ VisualImageSearch

SpecSearch == InitSearch /\ [][NextSearch]_vars

-----------------------------------------------------------------------------
(* Properties of the searches *)

Answered(l) == l.op \in SearchOps /\ l.response.status = 200

KeysOf(ms) == {<<ms[i].item_type, ms[i].item_id>> : i \in DOMAIN ms}

Opposite(type) == IF type = "lost" THEN "found" ELSE "lost"

RequestedType(l) ==
    IF l.target_type = NoneStr THEN Opposite(l.key[1]) ELSE l.target_type

Twin(k) == <<Opposite(k[1]), k[2]>>

(* The query vector of a search and the similarity it assigns to a row *)
QueryVector(l) ==
    CASE l.op = "find" -> Loads(items[l.key].combined_embedding)
      [] l.op = "text_search" -> TextVec(l.query)
      [] OTHER -> ImageVec(l.file)

SimilarityOf(l, k) ==
    cosine_similarity(QueryVector(l),
                      IF l.op = "image_search" THEN Loads(items[k].image_embedding)
                      ELSE Loads(items[k].combined_embedding))

(* The rows a search scanned, without the query item itself *)
Population(l) ==
    {l.rows[i] : i \in DOMAIN l.rows} \ (IF l.op = "find" THEN {l.key} ELSE {})

Min(a, b) == IF a < b THEN a ELSE b

(* C10: in find_similar and in both ad-hoc searches a scanned candidate is  *)
(* in the untruncated match list exactly when its similarity is >= the      *)
(* threshold, and the output is that list cut to max_results: it holds      *)
(* min(max_results, number of matches) of the matches.                      *)
C10_ThresholdExact ==
    Answered(last) =>
      /\ \A k \in Population(last) :
            (k \in KeysOf(last.scanned)) <=> (SimilarityOf(last, k) >= last.threshold)
      /\ KeysOf(last.scanned) \subseteq Population(last)
      /\ KeysOf(last.response.matches) \subseteq KeysOf(last.scanned)
      /\ Len(last.response.matches) = Min(last.max_results, Len(last.scanned))
      /\ Cardinality(KeysOf(last.response.matches)) = Len(last.response.matches)

(* An item-to-item search in which one candidate sits exactly on the        *)
(* threshold and is returned while another lies below it and is dropped     *)
C10_Witness ==
    /\ last.op = "find" /\ last.response.status = 200
    /\ \E a \in Population(last), b \in Population(last) :
          /\ SimilarityOf(last, a) = last.threshold
          /\ a \in KeysOf(last.response.matches)
          /\ SimilarityOf(last, b) < last.threshold
          /\ b \notin KeysOf(last.scanned)

-----------------------------------------------------------------------------
(* The bonus specification: the two bonus functions of find_similar_items   *)
(* applied to a query item and a candidate whose locations and age are      *)
(* drawn from bounded sets.                                                 *)

BonusLocations == {"Lab", "lab", "lab 2", "la", "gym", "Library", "library"}

(* Candidate ages in clock units: on, just after and a day after each limit *)
BonusAges ==
    {0 - 1, 0, DayLen, DayLen + 1, 2 * DayLen,
     RecentDays * DayLen, RecentDays * DayLen + 1, (RecentDays + 1) * DayLen,
     NormalDays * DayLen, NormalDays * DayLen + 1, (NormalDays + 1) * DayLen}

QueryKey == <<"lost", 1>>
CandidateKey == <<"found", 1>>

InitBonus ==
    \E loc1 \in BonusLocations, loc2 \in BonusLocations, age \in BonusAges :
      /\ items = [k \in {QueryKey, CandidateKey} |->
                    IF k = QueryKey
                    THEN NewItem(DescriptionOf(k), loc1, "active", SearchNow)
                    ELSE NewItem(DescriptionOf(k), loc2, "active", SearchNow - age)]
      /\ images = <<>>
      /\ now = SearchNow
      /\ utc_offset = UtcOffset
      /\ last = NoOp
      /\ sess = NoSessions
      /\ similarity_matches = NoMatches

CalculateLocationBonus ==
    /\ last' = [op |-> "location_bonus",
                bonus |-> _calculate_location_bonus(items[QueryKey], items[CandidateKey])]
    /\ UNCHANGED <<items, images, now, utc_offset, sess, similarity_matches>>

CalculateTimeBonus ==
    /\ last' = [op |-> "time_bonus",
                bonus |-> _calculate_time_bonus(items[CandidateKey], now)]
    /\ UNCHANGED <<items, images, now, utc_offset, sess, similarity_matches>>

NextBonus == CalculateLocationBonus \/ CalculateTimeBonus

SpecBonus == InitBonus /\ [][NextBonus]_vars

Tokens(cs) == {Split(cs)[i] : i \in DOMAIN Split(cs)}

SharesToken(a, b) == Tokens(a) \cap Tokens(b) # {}

(* C11: the location bonus is 1.2 when the two locations are equal ignoring *)
(* case, otherwise 1.1 when they share a whitespace-delimited token,        *)
(* otherwise 1.0.                                                           *)
C11_LocationBonusByToken ==
    last.op = "location_bonus" =>
      LET a == Lower(Chars(items[QueryKey].location))
          b == Lower(Chars(items[CandidateKey].location))
      IN  last.bonus = IF a = b THEN SameLocationBonus
                       ELSE IF SharesToken(a, b) THEN SimilarLocationBonus
                       ELSE NoBonus

(* C12: the time bonus follows the elapsed age now - created_at: 1.2 up to  *)
(* one day, 1.1 up to seven days, 1.0 up to thirty days, 0.9 beyond.        *)
C12_TimeBonusByAge ==
    last.op = "time_bonus" =>
      LET age == now - items[CandidateKey].created_at
      IN  last.bonus = IF age <= VeryRecentDays * DayLen THEN VeryRecentBonus
                       ELSE IF age <= RecentDays * DayLen THEN RecentBonus
                       ELSE IF age <= NormalDays * DayLen THEN NoBonus
                       ELSE OlderBonus

-----------------------------------------------------------------------------
(* Ranking of item-to-item search, checked under SpecSearch *)

KeyOfMatch(m) == <<m.item_type, m.item_id>>

(* The scan position of a match *)
ScanPos(l, m) == CHOOSE i \in DOMAIN l.scanned : KeyOfMatch(l.scanned[i]) = KeyOfMatch(m)

BonusOr1(b) == IF b = 0 THEN NoBonus ELSE b

(* m ranks before n: higher confidence, or equal confidence and scanned first *)
RanksBefore(l, m, n) ==
    \/ m.confidence_level > n.confidence_level
    \/ /\ m.confidence_level = n.confidence_level
       /\ ScanPos(l, m) < ScanPos(l, n)

(* C13: the list returned by find_similar is in descending order of         *)
(* confidence_level = similarity x location bonus x time bonus (a disabled  *)
(* bonus counting as 1.0), equal confidences keep their scan order, and the *)
(* list holds the min(max_results, number of matches) top-ranked matches.   *)
C13_SortedStableTruncated ==
    (last.op = "find" /\ last.response.status = 200) =>
      LET out == last.response.matches
      IN  /\ \A i \in DOMAIN last.scanned :
                LET m == last.scanned[i]
                IN  /\ m.confidence_level =
                         m.similarity_score * BonusOr1(m.location_bonus)
                                            * BonusOr1(m.time_bonus)
                    /\ (m.location_bonus = 0) <=> ~last.lboost
                    /\ (m.time_bonus = 0) <=> ~last.tboost
          /\ \A i \in DOMAIN out : \E j \in DOMAIN last.scanned : out[i] = last.scanned[j]
          /\ \A i \in DOMAIN out, j \in DOMAIN out :
                i < j => RanksBefore(last, out[i], out[j])
          /\ Len(out) = Min(last.max_results, Len(last.scanned))
          /\ \A j \in DOMAIN last.scanned :
                KeyOfMatch(last.scanned[j]) \notin KeysOf(out) =>
                  \A i \in DOMAIN out : RanksBefore(last, out[i], last.scanned[j])

(* Two matches of equal confidence returned in scan order *)
C13_Witness ==
    /\ last.op = "find" /\ last.response.status = 200
    /\ Len(last.response.matches) = 2
    /\ last.response.matches[1].confidence_level = last.response.matches[2].confidence_level
    /\ ScanPos(last, last.response.matches[1]) < ScanPos(last, last.response.matches[2])

(* C14: find_similar on a stored query item without combined_embedding      *)
(* fails with the no-embedding condition, returns no result, scans no row   *)
(* and leaves items and images as they were.                                *)
C14_NoEmbeddingFails ==
    [][(/\ last'.op = "find"
        /\ last'.key \in DOMAIN items
        /\ items[last'.key].combined_embedding = None)
       => /\ last'.response = HTTPError(500, NoEmbeddings)
          /\ last'.response.matches = <<>>
          /\ last'.rows = <<>> /\ last'.scanned = <<>>
          /\ items' = items /\ images' = images]_vars

(* A failed search on an unembedded query item while an embedded active     *)
(* candidate of the target type is stored                                   *)
C14_Witness ==
    /\ last.op = "find" /\ last.key \in DOMAIN items
    /\ items[last.key].combined_embedding = None
    /\ last.response.status = 500
    /\ \E k \in DOMAIN items : /\ k[1] = RequestedType(last) /\ k # last.key
                               /\ Eligible(items[k], "combined_embedding")

-----------------------------------------------------------------------------
(* The corrupt-vector specification: the three items of the search          *)
(* specification after embedding generation, with the stored vectors of     *)
(* found item 2 replaced by text that does not parse or by a vector of      *)
(* another dimension (one written by a model of another width).             *)

EmbeddedDB ==
    LET db0 == [items |-> [k \in SearchKeys |-> SearchItem(k)],
                images |-> <<NewImage(<<"found", 2>>, "bottle.png")>>]
        db1 == generate_embeddings(db0, 1, "lost", FALSE, TRUE, "none", {}, SearchNow).db
        db2 == generate_embeddings(db1, 1, "found", FALSE, TRUE, "none", {}, SearchNow).db
    IN  generate_embeddings(db2, 2, "found", FALSE, TRUE, "none", {}, SearchNow).db

CorruptKey == <<"found", 2>>

CorruptVectors == {Garbage, Dumps(<<Scale>>)}

InitCorrupt ==
    \E c \in CorruptVectors :
      /\ items = [EmbeddedDB.items EXCEPT ![CorruptKey].combined_embedding = c,
                                          ![CorruptKey].image_embedding = c]
      /\ images = EmbeddedDB.images
      /\ now = SearchNow
      /\ utc_offset = UtcOffset
      /\ last = NoOp
      /\ sess = NoSessions
      /\ similarity_matches = NoMatches

NextCorrupt ==
    \/ UpdateItemStatus
    \/ FindSimilarItems
    \/ SemanticTextSearch
    \/ VisualImageSearch

SpecCorrupt == InitCorrupt /\ [][NextCorrupt]_vars

(* A stored vector that does not parse or has not the query's dimension *)
IsCorrupt(e, query_embedding) ==
    e # None /\ (~Parses(e) \/ Len(Loads(e)) # Len(query_embedding))

SearchColumn(l) ==
    IF l.op = "image_search" THEN "image_embedding" ELSE "combined_embedding"

(* C15: a candidate whose stored vector is corrupt is in no result of any   *)
(* search, whatever the threshold, and every other scanned candidate that   *)
(* reaches the threshold is still matched.                                  *)
C15_CorruptNeverReturned ==
    Answered(last) =>
      /\ \A k \in DOMAIN items :
            IsCorrupt(items[k][SearchColumn(last)], QueryVector(last))
              => k \notin KeysOf(last.response.matches)
      /\ \A k \in Population(last) :
            (/\ ~IsCorrupt(items[k][SearchColumn(last)], QueryVector(last))
             /\ SimilarityOf(last, k) >= last.threshold)
              => k \in KeysOf(last.scanned)

-----------------------------------------------------------------------------
(* SimilarityMatch records *)

(* The record the search has to leave for candidate m of query item k *)
RecordsCandidate(r, k, m) ==
    /\ r.lost_item_id = (IF k[1] = "lost" THEN k[2] ELSE m.item_id)
    /\ r.found_item_id = (IF k[1] = "lost" THEN m.item_id ELSE k[2])
    /\ r.status = "pending"
    /\ r.similarity_score = m.similarity_score
    /\ r.confidence_level = m.confidence_level
    /\ r.location_bonus = m.location_bonus
    /\ r.time_bonus = m.time_bonus
    /\ r.embedding_model = ModelName
    /\ r.algorithm_version = EmbeddingVersion

(* C16: item-to-item search leaves one pending SimilarityMatch record,      *)
(* carrying the scores, the bonuses and the model and version, for each     *)
(* candidate of the other type that clears the threshold.                   *)
C16_SearchRecordsMatches ==
    (last.op = "find" /\ last.response.status = 200) =>
      \A i \in DOMAIN last.scanned :
        last.scanned[i].item_type # last.key[1] =>
          \E id \in DOMAIN similarity_matches :
            RecordsCandidate(similarity_matches[id], last.key, last.scanned[i])

-----------------------------------------------------------------------------
(* Match Review State Machine: PUT /matches/{match_id}/review *)

MatchStatuses == {"pending", "reviewed", "dismissed", "confirmed"}

(* A SimilarityMatch row as the model class creates it *)
NewMatch(lost_id, found_id, score, t) ==
    [lost_item_id |-> lost_id, found_item_id |-> found_id,
     match_type |-> "combined_similarity",
     similarity_score |-> score, confidence_level |-> score,
     embedding_model |-> ModelName, algorithm_version |-> EmbeddingVersion,
     location_bonus |-> 0, time_bonus |-> 0,
     status |-> "pending", reviewed_by |-> 0, review_notes |-> NoneStr,
     created_at |-> t, updated_at |-> t]

FindMatchFirstRow(ms, match_id) ==
    IF DOMAIN ms = {} THEN 0 ELSE CHOOSE id \in DOMAIN ms : \A o \in DOMAIN ms : id <= o

(* db.query(SimilarityMatch).filter(id == match_id).first(); 0 stands for None *)
FindMatch(ms, match_id) == IF match_id \in DOMAIN ms THEN match_id ELSE 0

ReviewStatusDefaultPending(current, action) ==
    IF action = "confirm" THEN "confirmed"
    ELSE IF action = "dismiss" THEN "dismissed"
    ELSE IF action = "needs_review" THEN "reviewed"
    ELSE "pending"

ReviewStatusEchoesAction(current, action) ==
    IF action = "confirm" THEN "confirmed"
    ELSE IF action = "dismiss" THEN "dismissed"
    ELSE action

(* The status a review writes; the current status is not read *)
ReviewStatus(current, action) ==
    IF action = "confirm" THEN "confirmed"
    ELSE IF action = "dismiss" THEN "dismissed"
    ELSE "reviewed"

review_similarity_match(ms, match_id, action, notes, user_id, t) ==
    LET id == FindMatch(ms, match_id)
    IN  IF id = 0
        THEN [matches |-> ms, response |-> [status |-> 404, detail |-> "Match not found"]]
        ELSE LET reviewed == [ms[id] EXCEPT !.status = ReviewStatus(ms[id].status, action),
                                            !.reviewed_by = user_id,
                                            !.review_notes = notes,
                                            !.updated_at = t]
             IN  [matches |-> [ms EXCEPT ![id] = reviewed],
                  response |-> [status |-> 200, match_id |-> match_id,
                                match_status |-> reviewed.status,
                                reviewed_by |-> user_id, review_notes |-> notes,
                                updated_at |-> reviewed.updated_at]]

MatchIds == {1, 2}
ReviewActions == {"confirm", "dismiss", "needs_review", "pending"}
ReviewNotes == {NoneStr, "same wallet"}
Admins == {7, 8}

InitReview ==
    /\ items = [k \in {QueryKey, CandidateKey} |-> SearchItem(k)]
    /\ images = <<>>
    /\ now = SearchNow
    /\ utc_offset = UtcOffset
    /\ last = NoOp
    /\ sess = NoSessions
    /\ similarity_matches =
         [id \in MatchIds |-> NewMatch(1, 1, Scale - id, SearchNow - DayLen)]

ReviewSimilarityMatch ==
    \E match_id \in MatchIds \cup {3}, action \in ReviewActions,
       notes \in ReviewNotes, user_id \in Admins :
      LET r == review_similarity_match(similarity_matches, match_id, action, notes,
                                       user_id, now)
      IN  /\ similarity_matches' = r.matches
          /\ last' = [op |-> "review", match_id |-> match_id, action |-> action,
                      notes |-> notes, user_id |-> user_id, response |-> r.response]
          /\ UNCHANGED <<items, images, now, utc_offset, sess>>

NextReview == ReviewSimilarityMatch

SpecReview == InitReview /\ [][NextReview]_vars

(* C17: a review of a stored match sets its status to confirmed for action  *)
(* confirm, dismissed for dismiss and reviewed for any other action, and    *)
(* always stamps the reviewer, the notes and the current time.              *)
C17_ReviewSetsStatusAndStamps ==
    (last.op = "review" /\ last.match_id \in DOMAIN similarity_matches) =>
      LET m == similarity_matches[last.match_id]
      IN  /\ last.response.status = 200
          /\ m.status = (CASE last.action = "confirm" -> "confirmed"
                           [] last.action = "dismiss" -> "dismissed"
                           [] OTHER -> "reviewed")
          /\ m.reviewed_by = last.user_id
          /\ m.review_notes = last.notes
          /\ m.updated_at = now
          /\ last.response.match_status = m.status

(* A review with an action other than confirm and dismiss, on a match that  *)
(* another reviewer had left with other notes                               *)
C17_Witness ==
    /\ last.op = "review" /\ last.response.status = 200
    /\ last.action \notin {"confirm", "dismiss", "needs_review"}
    /\ similarity_matches[last.match_id].status = "reviewed"
    /\ similarity_matches[last.match_id].updated_at
         > similarity_matches[last.match_id].created_at
    /\ \E id \in DOMAIN similarity_matches :
          /\ id # last.match_id
          /\ similarity_matches[id].reviewed_by \notin {0, last.user_id}

(* C18: once a match has left pending no review changes its status *)
C18_StatusChangesOnce ==
    [][\A id \in DOMAIN similarity_matches :
          similarity_matches[id].status # "pending"
            => similarity_matches'[id].status = similarity_matches[id].status]_vars

(* C19: a review of an unknown match id fails with not-found and changes no *)
(* match record, item or image.                                             *)
C19_UnknownMatchNotFound ==
    [][(last'.op = "review" /\ last'.match_id \notin DOMAIN similarity_matches)
       => /\ last'.response.status = 404
          /\ similarity_matches' = similarity_matches
          /\ items' = items /\ images' = images]_vars

(* A not-found review while a reviewed match is stored *)
C19_Witness ==
    /\ last.op = "review" /\ last.response.status = 404
    /\ last.match_id \notin DOMAIN similarity_matches
    /\ \E id \in DOMAIN similarity_matches : similarity_matches[id].status # "pending"

-----------------------------------------------------------------------------
(* The frame specification: a lost and a found item, one image, one         *)
(* confirmed and one pending match, under every operation of the engine    *)
(* but the review.                                                          *)

ReviewedMatches ==
    review_similarity_match(
        [id \in MatchIds |-> NewMatch(1, 1, Scale - id, SearchNow - DayLen)],
        1, "confirm", "same wallet", 7, SearchNow).matches

InitFrame ==
    /\ items = [k \in {QueryKey, CandidateKey} |-> SearchItem(k)]
    /\ images = <<NewImage(QueryKey, FileOf(1))>>
    /\ now = SearchNow
    /\ utc_offset = UtcOffset
    /\ last = NoOp
    /\ sess = NoSessions
    /\ similarity_matches = ReviewedMatches

NextFrame ==
    \/ EnsureEmbeddings
    \/ GenerateBatchEmbeddings
    \/ CleanupOldEmbeddings
    \/ FindSimilarItems
    \/ SemanticTextSearch
    \/ VisualImageSearch

SpecFrame == InitFrame /\ [][NextFrame]_vars

(* C20: no step other than a review changes the set of SimilarityMatch      *)
(* records or any field of one: item-to-item search, text and image search, *)
(* embedding generation, batch embedding and cleanup leave the table as it  *)
(* was, and no step at all removes a record.                                *)
C20_OnlyReviewChangesMatches ==
    [][/\ last'.op # "review" => similarity_matches' = similarity_matches
       /\ DOMAIN similarity_matches \subseteq DOMAIN similarity_matches']_vars

(* An item-to-item search that returned a match while reviewed matches are  *)
(* stored                                                                   *)
C20_Witness ==
    /\ last.op = "find" /\ last.response.status = 200
    /\ last.response.matches # <<>>
    /\ \E id \in DOMAIN similarity_matches :
          similarity_matches[id].status = "confirmed"

-----------------------------------------------------------------------------
(* The batch endpoint on lists of several ids, checked under SpecBatch *)

MaxBatchLen == 2

(* Ids a batch may name: 1 and 2 are stored lost items, 3 is unknown *)
BatchItemIds == {1, 2, 3}

LongBatchIds == UNION {[1..n -> BatchItemIds] : n \in 0..MaxBatchLen}

InitBatch ==
    /\ items = [k \in {<<"lost", 1>>, <<"lost", 2>>} |-> NewItem(DescriptionOf(k), LocationOf(k), "active", 0)]
    /\ images = <<>>
    /\ now = DayLen
    /\ utc_offset = UtcOffset
    /\ last = NoOp
    /\ sess = NoSessions
    /\ similarity_matches = NoMatches

GenerateLongBatch == BatchRequest(LongBatchIds)

NextBatch ==
    \/ GenerateLongBatch
    \/ CleanupOldEmbeddings

SpecBatch == InitBatch /\ [][NextBatch]_vars

(* The positions of a batch whose per-item result reports success *)
Succeeded(l) == {i \in 1..Len(l.response.results) : l.response.results[i].success}

(* C21: the batch response has total_items equal to the length of the id   *)
(* list, successful + failed equal to that total, one per-item result per  *)
(* input position in input order, and successful equal to the number of    *)
(* results whose success flag is true; duplicates, unknown ids and the     *)
(* empty list included.                                                    *)
C21_BatchCountersExact ==
    last.op = "batch" =>
        LET r == last.response
        IN /\ r.total_items = Len(last.ids)
           /\ r.successful + r.failed = r.total_items
           /\ Len(r.results) = Len(last.ids)
           /\ \A i \in 1..Len(last.ids) :
                 /\ r.results[i].item_id = last.ids[i]
                 /\ r.results[i].item_type = last.type
           /\ r.successful = Cardinality(Succeeded(last))

(* A batch naming the same stored id twice, with one call succeeding and   *)
(* the other failing                                                       *)
C21_Witness ==
    /\ last.op = "batch"
    /\ Len(last.ids) >= 2
    /\ last.ids[1] = last.ids[2]
    /\ last.response.successful >= 1
    /\ last.response.failed >= 1

(* The ids of the positions in keep, in input order *)
RECURSIVE Keep(_, _, _)
Keep(ids, keep, i) ==
    IF i > Len(ids) THEN <<>>
    ELSE (IF i \in keep THEN <<ids[i]>> ELSE <<>>) \o Keep(ids, keep, i + 1)

(* C22: a batch step turns every failing id (unknown item, text-encoding   *)
(* failure, persistence failure) into a per-item result with success=false *)
(* and an error text, still processes every later id, and leaves the store *)
(* exactly as the batch of only the succeeding ids would have left it.     *)
C22_BatchIsolatesFailures ==
    [][last'.op = "batch" =>
        LET l == last'
            r == l.response
            good == Keep(l.ids, Succeeded(l), 1)
            alone == generate_batch_embeddings(DB, good, l.type, l.force,
                                               [i \in 1..Len(good) |-> "none"], now)
        IN /\ Len(r.results) = Len(l.ids)
           /\ \A i \in 1..Len(l.ids) :
                 LET k == <<l.type, l.ids[i]>>
                 IN /\ k \notin DOMAIN items => ~r.results[i].success
                    /\ (l.fails[i] # "none" /\ l.force) => ~r.results[i].success
                    /\ (k \in DOMAIN items /\ l.fails[i] = "none") => r.results[i].success
                    /\ ~r.results[i].success => r.results[i].error_message # NoneStr
           /\ items' = alone.db.items
           /\ images' = alone.db.images]_vars

(* A forced batch whose first id commits and whose second id then fails at *)
(* the commit, the first item's new embeddings staying in the store        *)
C22_Witness ==
    /\ last.op = "batch"
    /\ last.force
    /\ last.ids = <<1, 2>>
    /\ last.type = "lost"
    /\ last.fails = <<"none", "commit">>
    /\ last.response.results[1].success
    /\ ~last.response.results[2].success
    /\ Truthy(items[<<"lost", 1>>].combined_embedding)
    /\ ~Truthy(items[<<"lost", 2>>].combined_embedding)

-----------------------------------------------------------------------------
(* The match status over sequences of reviews, checked under SpecReview *)

(* C28: over any sequence of reviews with any action values, the status of *)
(* every SimilarityMatch is one of pending, reviewed, confirmed and        *)
(* dismissed, and a match that has left pending never returns to pending.  *)
C28_NeverBackToPending ==
    /\ [](\A id \in DOMAIN similarity_matches :
             similarity_matches[id].status \in MatchStatuses)
    /\ [][\A id \in DOMAIN similarity_matches :
             similarity_matches[id].status # "pending"
                => similarity_matches'[id].status # "pending"]_vars

(* A match reviewed with the action value "pending" while the other match  *)
(* has already been confirmed                                              *)
C28_Witness ==
    /\ last.op = "review"
    /\ last.response.status = 200
    /\ last.action = "pending"
    /\ similarity_matches[last.match_id].status = "reviewed"
    /\ \E id \in DOMAIN similarity_matches :
          id # last.match_id /\ similarity_matches[id].status = "confirmed"

-----------------------------------------------------------------------------
(* The ad-hoc searches, checked under SpecSearch *)

AdhocAnswered(l) == l.op \in {"text_search", "image_search"} /\ l.response.status = 200

(* The scanned rows whose stored vector parses and clears the threshold *)
Clearing(l) ==
    {k \in {l.rows[i] : i \in DOMAIN l.rows} :
        /\ Parses(items[k][SearchColumn(l)])
        /\ Geq(SimilarityOf(l, k), l.threshold)}

(* C24: a text or image search applies no location or time boost and no    *)
(* self-exclusion: every result carries confidence_level equal to its raw  *)
(* similarity_score and no bonus, every scanned row that clears the        *)
(* threshold is a result unless max_results cuts it off, and the list is   *)
(* in descending order of similarity and has at most max_results entries.  *)
C24_AdhocRawRanking ==
    AdhocAnswered(last) =>
      LET out == last.response.matches
      IN  /\ \A i \in DOMAIN out :
                /\ out[i].similarity_score = SimilarityOf(last, KeyOfMatch(out[i]))
                /\ out[i].confidence_level = out[i].similarity_score
                /\ out[i].location_bonus = 0
                /\ out[i].time_bonus = 0
          /\ \A i \in DOMAIN out, j \in DOMAIN out :
                i < j => out[i].similarity_score >= out[j].similarity_score
          /\ Len(out) <= last.max_results
          /\ KeysOf(out) \subseteq Clearing(last)
          /\ Len(out) = Min(last.max_results, Cardinality(Clearing(last)))

(* A text search that ranks two results of different similarity and cuts   *)
(* off a third row that cleared the threshold                              *)
C24_Witness ==
    /\ AdhocAnswered(last)
    /\ last.op = "text_search"
    /\ Len(last.response.matches) = 2
    /\ last.response.matches[1].similarity_score > last.response.matches[2].similarity_score
    /\ Cardinality(Clearing(last)) = 3

(* The candidate population of item-to-item search for the filters of an   *)
(* ad-hoc search: the active items of the requested type(s) that have a    *)
(* combined_embedding, narrowed by the category when one is given          *)
CombinedPopulation(l) ==
    {k \in DOMAIN items :
        /\ l.item_type \in {NoneStr, k[1]}
        /\ items[k].status = "active"
        /\ items[k].combined_embedding # None
        /\ l.category \in {NoneStr, items[k].category}}

(* C26: a text search and an image search scan exactly the candidate       *)
(* population of item-to-item search and score the query vector against    *)
(* each candidate's combined_embedding.                                    *)
C26_AdhocScansCombined ==
    AdhocAnswered(last) =>
      /\ {last.rows[i] : i \in DOMAIN last.rows} = CombinedPopulation(last)
      /\ \A i \in DOMAIN last.response.matches :
            LET m == last.response.matches[i]
            IN  m.similarity_score =
                  cosine_similarity(QueryVector(last),
                                    Loads(items[KeyOfMatch(m)].combined_embedding))

-----------------------------------------------------------------------------
(* Image flags of the stored rows, checked under Spec *)

(* C30: in every committed state reached by embedding generation, batch    *)
(* embedding and cleanup, an item that holds an image_embedding has        *)
(* has_images true, and an image whose status is processed holds a         *)
(* non-null image_embedding.                                               *)
C30_ImageFlagsConsistent ==
    /\ \A k \in DOMAIN items :
          items[k].image_embedding # None => items[k].has_images
    /\ \A i \in DOMAIN images :
          images[i].embedding_status = "processed" => images[i].image_embedding # None

(* An item embedded from two images of which one was encoded and the other *)
(* failed                                                                  *)
C30_Witness ==
    /\ \E k \in DOMAIN items :
          /\ items[k].image_embedding # None
          /\ \E i \in ItemImages(images, k) : images[i].embedding_status = "processed"
          /\ \E i \in ItemImages(images, k) : images[i].embedding_status = "failed"

-----------------------------------------------------------------------------
(* Timestamps: the item endpoints, generation and cleanup on a clock that  *)
(* advances, on servers in and off UTC                                     *)

(* The zones a server may run in: west of UTC, UTC, east of UTC *)
UtcOffsets == {-1, 0, 1}

MaxClock == 2

InitTime ==
    /\ utc_offset \in UtcOffsets
    /\ now = 0
    /\ items = [k \in {QueryKey, CandidateKey} |->
                  NewItem(DescriptionOf(k), LocationOf(k), "active", utcnow(0))]
    /\ images = <<>>
    /\ last = NoOp
    /\ sess = NoSessions
    /\ similarity_matches = NoMatches

Tick ==
    /\ now < MaxClock
    /\ now' = now + 1
    /\ last' = [op |-> "tick"]
    /\ UNCHANGED <<items, images, utc_offset, sess, similarity_matches>>

(* update_lost_item / update_found_item by the owner, changing the location *)
UpdateItem ==
    \E k \in DOMAIN items :
      /\ items' = [items EXCEPT ![k].location = "Main gate",
                                ![k].updated_at = utcnow(now)]
      /\ last' = [op |-> "update", key |-> k]
      /\ UNCHANGED <<images, now, utc_offset, sess, similarity_matches>>

NextTime ==
    \/ Tick
    \/ UpdateItem
    \/ UpdateItemStatus
    \/ EnsureEmbeddings
    \/ CleanupOldEmbeddings

SpecTime == InitTime /\ [][NextTime]_vars

EmbeddingFields(item) ==
    <<item.description_embedding, item.image_embedding, item.combined_embedding,
      item.embedding_model, item.embedding_version>>

(* The items a cleanup step should clear: older than the cutoff and embedded *)
DueForCleanup(days) ==
    {k \in DOMAIN items :
        /\ items[k].updated_at < now - days * DayLen
        /\ items[k].combined_embedding # None}

(* C23: a cleanup step nulls the text, image and combined embeddings, the  *)
(* model and the version of exactly the lost and found items whose         *)
(* updated_at precedes now - older_than_days and whose combined_embedding  *)
(* is non-null, leaves every other item and every other field as it was,   *)
(* and returns the number of items cleared in each variant.                *)
C23_CleanupExact ==
    [][last'.op = "cleanup" =>
        LET due == DueForCleanup(last'.days)
        IN /\ DOMAIN items' = DOMAIN items
           /\ \A k \in DOMAIN items :
                 IF k \in due
                 THEN /\ EmbeddingFields(items'[k]) = <<None, None, None, NoneStr, NoneStr>>
                      /\ items'[k] = [items[k] EXCEPT !.description_embedding = None,
                                                       !.image_embedding = None,
                                                       !.combined_embedding = None,
                                                       !.embedding_model = NoneStr,
                                                       !.embedding_version = NoneStr]
                 ELSE items'[k] = items[k]
           /\ images' = images
           /\ last'.response.lost_items_updated =
                 Cardinality({k \in due : k[1] = "lost"})
           /\ last'.response.found_items_updated =
                 Cardinality({k \in due : k[1] = "found"})]_vars

(* A cleanup that cleared the lost item and kept the found item, which is  *)
(* embedded but was written at the cutoff                                  *)
C23_Witness ==
    /\ last.op = "cleanup"
    /\ last.days = 0
    /\ last.response.lost_items_updated = 1
    /\ last.response.found_items_updated = 0
    /\ items[<<"lost", 1>>].combined_embedding = None
    /\ items[<<"found", 1>>].combined_embedding # None
    /\ items[<<"found", 1>>].updated_at = now

(* C25: every step that writes an embedding field of an item, a successful *)
(* generation and a cleanup alike, sets that item's updated_at to the time *)
(* of the write.                                                           *)
C25_EmbeddingWriteStamps ==
    [][\A k \in DOMAIN items :
          EmbeddingFields(items'[k]) # EmbeddingFields(items[k])
             => items'[k].updated_at = now]_vars

(* C27: an item's updated_at never decreases over item updates, status     *)
(* changes, embedding generations and cleanups, whatever the server's zone *)
C27_UpdatedAtMonotonic ==
    [][\A k \in DOMAIN items : items'[k].updated_at >= items[k].updated_at]_vars

-----------------------------------------------------------------------------
(* Searches after a cleanup.  Every item starts embedded, so an item whose *)
(* combined_embedding is null has been cleared by a cleanup and has not    *)
(* been embedded with success since.                                       *)

InitCleared ==
    /\ items = EmbeddedDB.items
    /\ images = EmbeddedDB.images
    /\ now = SearchNow
    /\ utc_offset = UtcOffset
    /\ last = NoOp
    /\ sess = NoSessions
    /\ similarity_matches = NoMatches

NextCleared ==
    \/ CleanupOldEmbeddings
    \/ GenerateEmbeddings
    \/ EnsureEmbeddings
    \/ FindSimilarItems
    \/ SemanticTextSearch
    \/ VisualImageSearch

SpecCleared == InitCleared /\ [][NextCleared]_vars

ClearedItems == {k \in DOMAIN items : items[k].combined_embedding = None}

(* C29: from the cleanup that clears an item until the next successful     *)
(* generation of its embeddings, the item is in no result of item-to-item  *)
(* search, text search or image search, whatever the threshold.            *)
C29_ClearedItemsUnfindable ==
    Answered(last) => KeysOf(last.response.matches) \cap ClearedItems = {}

(* A search with threshold 0 that returns an item while another active     *)
(* item of the searched category stands cleared                            *)
C29_Witness ==
    /\ Answered(last)
    /\ last.threshold = 0
    /\ last.response.matches # <<>>
    /\ \E k \in ClearedItems : items[k].status = "active" /\ items[k].has_images

====
